---- MODULE Spec2Model ----
(***************************************************************************)
(* Model of hosts.py, the Yandex Cloud dynamic inventory script:           *)
(* YandexCloudProvider (credentials, zone and instance listing, the        *)
(* instance -> Host normalisation), Inventory (groups, all.children,       *)
(* _meta.hostvars, the per-host record) and main.                          *)
(*                                                                         *)
(* A Python str is a sequence of one-character strings, so that            *)
(* str.replace("-", "_") is computed and not assumed.  Dict keys that the  *)
(* program never rewrites ("hosts", "children", "ansible_group", ...) are  *)
(* plain strings.  A raised exception is modelled by the state the         *)
(* in-place mutations have reached when it is raised, plus the process     *)
(* exit it causes in main.                                                 *)
(***************************************************************************)
EXTENDS Integers, Sequences, FiniteSets, TLC

VARIABLES
    pc,           \* position of main
    env,          \* os.environ, the four variables the script reads
    argv,         \* sys.argv[1:]
    iam_token,    \* YandexCloudProvider.iam_token
    folder_id,    \* YandexCloudProvider.folder_id
    yandex_sdk,   \* TRUE once SDK(iam_token=...) has been constructed
    rpc_calls,    \* the List calls sent to the cloud API, in order
    args,         \* the argparse.Namespace
    zone_ids,     \* value of get_availability_zone_ids() handed to Inventory
    groups,       \* Inventory._groups
    hosts,        \* Inventory._hosts
    instances,    \* value of _get_instances()
    host_list,    \* value of get_hosts()
    n,            \* iterations of the for loop of main that have completed
    stdout,       \* what print() has written
    exit_code     \* process exit status, -1 while running

vars == <<pc, env, argv, iam_token, folder_id, yandex_sdk, rpc_calls, args,
          zone_ids, groups, hosts, instances, host_list, n, stdout, exit_code>>

-----------------------------------------------------------------------------
(* Python values *)

None == <<"None">>

EmptyDict == [k \in {} |-> None]

str_all == <<"a", "l", "l">>
str_meta == <<"_", "m", "e", "t", "a">>

replace(s, old, new) == [i \in 1..Len(s) |-> IF s[i] = old THEN new ELSE s[i]]

dict_get(d, k) == IF k \in DOMAIN d THEN d[k] ELSE None

dict_set(d, k, v) == [x \in DOMAIN d \cup {k} |-> IF x = k THEN v ELSE d[x]]

truthy(v) == v # None /\ v # <<>>

-----------------------------------------------------------------------------
(* Bounds and input domains *)

MaxInstances == 2

\* Answers of the zone listing: none, one zone, two zones in either order,
\* two ids that collide once hyphens are replaced, a repeated id, and an id
\* that is one of the reserved group names.
ZoneLists ==
    { <<>>,
      << <<"a", "-", "b">> >>,
      << <<"a", "-", "b">>, <<"c">> >>,
      << <<"c">>, <<"a", "-", "b">> >>,
      << <<"a", "-", "b">>, <<"a", "_", "b">>, <<"c">> >>,
      << <<"c">>, <<"c">> >>,
      << str_all, <<"a", "-", "b">> >> }

InstanceZones == { <<"a", "-", "b">>, <<"c">> }

\* no labels; ansible_group empty, naming a zone (or a group of its own when
\* that zone is not listed), naming the reserved group all
LabelDicts ==
    {EmptyDict} \cup
    { [ansible_group |-> v] : v \in { <<>>, <<"a", "-", "b">>, str_all } }

NoNat == [one_to_one_nat |-> None]

OneToOneNat(a) == [one_to_one_nat |-> a]

\* instance h-1 with no interface, an interface without NAT, or a NAT
\* address; instance g always with a NAT address
Instances ==
    [name : { <<"h", "-", "1">> }, zone_id : InstanceZones, labels : LabelDicts,
     network_interfaces : { <<>>, <<NoNat>>, <<OneToOneNat(<<"1">>)>> }]
    \cup
    [name : { <<"g">> }, zone_id : InstanceZones, labels : LabelDicts,
     network_interfaces : { <<OneToOneNat(<<"2">>), NoNat>> }]

InstanceLists == UNION { [1..k -> Instances] : k \in 0..MaxInstances }

EnvNames == {"TF_VAR_yc_iam_token", "YC_TOKEN", "TF_VAR_yc_folder_id", "YC_FOLDER_ID"}

\* each variable unset, set to the empty string, or set to a value
EnvAll == [EnvNames -> {None, <<>>, <<"v">>}]

\* the environments of the runs of main followed to their end: the token in
\* TF_VAR_yc_iam_token or missing, the folder id in YC_FOLDER_ID or missing
EnvMain ==
    { e \in EnvAll : /\ e["YC_TOKEN"] = None
                     /\ e["TF_VAR_yc_folder_id"] = None
                     /\ e["TF_VAR_yc_iam_token"] # <<>>
                     /\ e["YC_FOLDER_ID"] # <<>> }

opt_list == <<"--list">>
opt_host == <<"--host">>
opt_help == <<"--help">>

Argvs ==
    { <<>>, <<opt_list>>, <<opt_host, <<"h", "_", "1">> >>, <<opt_host>>,
      <<opt_list, opt_host, <<"g">> >>, <<opt_help>> }

-----------------------------------------------------------------------------
(* class Inventory *)

\* _create_group without its membership test
create_group_unguarded(G, group_name) ==
    LET G1 == dict_set(G, group_name, [hosts |-> <<>>])
    IN  [G1 EXCEPT ![str_all] =
            [children |-> Append(G1[str_all].children, group_name)]]

\* _create_group: a group that exists is left alone, a new one gets an empty
\* hosts list and is appended to all.children.
create_group(G, group_name) ==
    IF group_name \notin DOMAIN G
    THEN LET G1 == dict_set(G, group_name, [hosts |-> <<>>])
         IN  [G1 EXCEPT ![str_all] =
                 [children |-> Append(G1[str_all].children, group_name)]]
    ELSE G

RECURSIVE init_groups(_, _, _)
\* the for loop of __init__ over groups[i..]
init_groups(G, zone_list, i) ==
    IF i > Len(zone_list) THEN G
    ELSE init_groups(create_group(G, replace(zone_list[i], "-", "_")), zone_list, i + 1)

\* __init__ creating the groups under the zone ids as listed
Inventory_init_raw(zone_list) ==
    LET RECURSIVE loop(_, _)
        loop(G, i) == IF i > Len(zone_list) THEN G
                      ELSE loop(create_group(G, zone_list[i]), i + 1)
    IN  [groups |-> loop((str_all :> [children |-> <<>>]) @@
                         (str_meta :> [hostvars |-> EmptyDict]), 1),
         hosts |-> EmptyDict]

Inventory_init(zone_list) ==
    [groups |-> init_groups((str_all :> [children |-> <<>>]) @@
                            (str_meta :> [hostvars |-> EmptyDict]),
                            zone_list, 1),
     hosts |-> EmptyDict]

\* self._groups[name]["hosts"] raises KeyError when the group is missing or
\* has no "hosts" key (all, _meta)
has_hosts_list(G, name) == name \in DOMAIN G /\ "hosts" \in DOMAIN G[name]

append_host(G, name, host_name) ==
    [G EXCEPT ![name] = [hosts |-> Append(G[name].hosts, host_name)]]

\* _add_host_to_group; raised = a KeyError left the method, groups = the
\* dict as the in-place appends have left it
add_host_to_group(G, host) ==
    IF ~has_hosts_list(G, host.zone)
    THEN [raised |-> TRUE, groups |-> G]
    ELSE LET G1 == append_host(G, host.zone, host.name)
             group_name == dict_get(host.labels, "ansible_group")
         IN  IF group_name # None
             THEN LET G2 == create_group(G1, group_name)
                  IN  IF ~has_hosts_list(G2, group_name)
                      THEN [raised |-> TRUE, groups |-> G2]
                      ELSE [raised |-> FALSE,
                            groups |-> append_host(G2, group_name, host.name)]
             ELSE [raised |-> FALSE, groups |-> G1]

\* _add_host_info_to_meta writing a variable only for a host not yet in hostvars
add_host_info_to_meta_once(G, host_name, key, value) ==
    LET hv == G[str_meta].hostvars
    IN  IF host_name \notin DOMAIN hv
        THEN [G EXCEPT ![str_meta] =
                 [hostvars |-> dict_set(hv, host_name, dict_set(EmptyDict, key, value))]]
        ELSE G

add_host_info_to_meta(G, host_name, key, value) ==
    LET hv == G[str_meta].hostvars
        hv1 == IF host_name \notin DOMAIN hv
               THEN dict_set(hv, host_name, EmptyDict)
               ELSE hv
    IN  [G EXCEPT ![str_meta] =
            [hostvars |-> dict_set(hv1, host_name, dict_set(hv1[host_name], key, value))]]

host_record(host) == [ansible_host |-> host.ip_address]

RECURSIVE meta_items(_, _, _, _)
\* the for loop of add_host_to_inventory over the items of self._hosts[host_name]
meta_items(G, host_name, items, keys) ==
    IF keys = {} THEN G
    ELSE LET key == CHOOSE k \in keys : TRUE
         IN  meta_items(add_host_info_to_meta(G, host_name, key, items[key]),
                        host_name, items, keys \ {key})

add_host_to_inventory(G, H, host) ==
    LET r == add_host_to_group(G, host)
    IN  IF r.raised
        THEN [raised |-> TRUE, groups |-> r.groups, hosts |-> H]
        ELSE LET H1 == dict_set(H, host.name, host_record(host))
             IN  [raised |-> FALSE,
                  groups |-> meta_items(r.groups, host.name, H1[host.name],
                                        DOMAIN H1[host.name]),
                  hosts |-> H1]

(* json.dumps, as the document it writes *)
json_str(s) == [json |-> "string", value |-> s]

json_list(l) == [json |-> "array", items |-> [i \in DOMAIN l |-> json_str(l[i])]]

json_vars(d) == [json |-> "object", members |-> [k \in DOMAIN d |-> json_str(d[k])]]

json_null == [json |-> "null"]

json_group(r) ==
    [json |-> "object",
     members |-> [f \in DOMAIN r |->
                    IF f = "hostvars"
                    THEN [json |-> "object",
                          members |-> [h \in DOMAIN r[f] |-> json_vars(r[f][h])]]
                    ELSE json_list(r[f])]]

Inventory_str(G) ==
    [json |-> "object", members |-> [g \in DOMAIN G |-> json_group(G[g])]]

\* get_host_info with an empty dict as the default of .get
get_host_info_default(H, host_name) ==
    IF host_name \in DOMAIN H THEN json_vars(H[host_name]) ELSE json_vars(EmptyDict)

\* json.dumps(self._hosts.get(host_name)): .get answers None for a key that
\* is not in the dict, and json.dumps writes None as null
get_host_info(H, host_name) ==
    IF host_name \in DOMAIN H THEN json_vars(H[host_name]) ELSE json_null

-----------------------------------------------------------------------------
(* class YandexCloudProvider *)

getenv(e, name) == e[name]

read_iam_token(e) ==
    IF truthy(getenv(e, "TF_VAR_yc_iam_token"))
    THEN getenv(e, "TF_VAR_yc_iam_token")
    ELSE getenv(e, "YC_TOKEN")

read_folder_id(e) ==
    IF truthy(getenv(e, "TF_VAR_yc_folder_id"))
    THEN getenv(e, "TF_VAR_yc_folder_id")
    ELSE getenv(e, "YC_FOLDER_ID")

\* __init__ without its folder id check
credentials_check_token_only(token, folder) ==
    IF token = None THEN "token_missing" ELSE "ok"

\* the two checks of __init__: which sys.exit(1) is taken, if any
credentials_check(token, folder) ==
    IF token = None THEN "token_missing"
    ELSE IF folder = None THEN "folder_missing"
    ELSE "ok"

\* network_interfaces[0] raises IndexError on an empty repeated field
can_convert(instance) == Len(instance.network_interfaces) >= 1

\* .primary_v4_address.one_to_one_nat.address: reading a protobuf message
\* field that is not set yields the default message, whose address is ""
nat_address(interface) ==
    IF interface.one_to_one_nat = None THEN <<>> ELSE interface.one_to_one_nat

instance_to_host(instance) ==
    [name |-> replace(instance.name, "-", "_"),
     fqdn |-> instance.name \o <<".">>,
     ip_address |-> nat_address(instance.network_interfaces[1]),
     labels |-> [key \in DOMAIN instance.labels |->
                    replace(instance.labels[key], "-", "_")],
     zone |-> replace(instance.zone_id, "-", "_")]

get_hosts(instance_list) ==
    IF \A i \in DOMAIN instance_list : can_convert(instance_list[i])
    THEN [raised |-> FALSE,
          hosts |-> [i \in DOMAIN instance_list |-> instance_to_host(instance_list[i])]]
    ELSE [raised |-> TRUE, hosts |-> <<>>]

-----------------------------------------------------------------------------
(* parse_args: one of --list / --host NAME is required, they exclude each
   other; -h/--help prints the help and exits 0; anything else is a usage
   error on stderr with exit status 2 *)

parse_args(av) ==
    IF \E i \in DOMAIN av : av[i] = opt_help
        THEN [outcome |-> "help"]
    ELSE IF av = <<opt_list>>
        THEN [outcome |-> "ok", list |-> TRUE, host |-> None]
    ELSE IF Len(av) = 2 /\ av[1] = opt_host /\ av[2] \notin {opt_list, opt_host}
        THEN [outcome |-> "ok", list |-> FALSE, host |-> av[2]]
    ELSE [outcome |-> "error"]

-----------------------------------------------------------------------------
(* main *)

print(out, kind, body) == Append(out, [kind |-> kind, body |-> body])

exit(status) == pc' = "exit" /\ exit_code' = status

\* args before parse_args has returned
NoArgs == [list |-> FALSE, host |-> None]

Init ==
    /\ pc = "provider"
    /\ env \in EnvMain
    /\ argv \in Argvs
    /\ iam_token = None
    /\ folder_id = None
    /\ yandex_sdk = FALSE
    /\ rpc_calls = <<>>
    /\ args = NoArgs
    /\ zone_ids = <<>>
    /\ groups = EmptyDict
    /\ hosts = EmptyDict
    /\ instances = <<>>
    /\ host_list = <<>>
    /\ n = 0
    /\ stdout = <<>>
    /\ exit_code = -1

\* the same start, over every environment
InitCred ==
    /\ pc = "provider"
    /\ env \in EnvAll
    /\ argv \in Argvs
    /\ iam_token = None
    /\ folder_id = None
    /\ yandex_sdk = FALSE
    /\ rpc_calls = <<>>
    /\ args = NoArgs
    /\ zone_ids = <<>>
    /\ groups = EmptyDict
    /\ hosts = EmptyDict
    /\ instances = <<>>
    /\ host_list = <<>>
    /\ n = 0
    /\ stdout = <<>>
    /\ exit_code = -1

\* line 131: YandexCloudProvider()
YandexCloudProvider_init ==
    /\ pc = "provider"
    /\ iam_token' = read_iam_token(env)
    /\ folder_id' = read_folder_id(env)
    /\ LET c == credentials_check(iam_token', folder_id')
       IN  IF c = "ok"
           THEN /\ yandex_sdk' = TRUE
                /\ pc' = "parse_args"
                /\ UNCHANGED <<stdout, exit_code>>
           ELSE /\ stdout' = print(stdout, "message", c)
                /\ exit(1)
                /\ UNCHANGED yandex_sdk
    /\ UNCHANGED <<env, argv, rpc_calls, args, zone_ids, groups, hosts,
                   instances, host_list, n>>

\* line 132: args = parse_args()
main_parse_args ==
    /\ pc = "parse_args"
    /\ LET r == parse_args(argv)
       IN  CASE r.outcome = "ok" ->
                  /\ args' = [list |-> r.list, host |-> r.host]
                  /\ pc' = "inventory"
                  /\ UNCHANGED <<stdout, exit_code>>
             [] r.outcome = "help" ->
                  /\ stdout' = print(stdout, "message", "help")
                  /\ exit(0)
                  /\ UNCHANGED args
             [] OTHER ->
                  /\ exit(2)
                  /\ UNCHANGED <<args, stdout>>
    /\ UNCHANGED <<env, argv, iam_token, folder_id, yandex_sdk, rpc_calls,
                   zone_ids, groups, hosts, instances, host_list, n>>

\* line 133: inventory = Inventory(groups=get_availability_zone_ids());
\* the List call either raises or answers with some zone list
main_inventory ==
    /\ pc = "inventory"
    /\ rpc_calls' = Append(rpc_calls, "ZoneService.List")
    /\ \/ /\ exit(1)
          /\ UNCHANGED <<zone_ids, groups, hosts>>
       \/ \E zl \in ZoneLists :
             /\ zone_ids' = zl
             /\ groups' = Inventory_init(zl).groups
             /\ hosts' = Inventory_init(zl).hosts
             /\ pc' = "get_hosts"
             /\ UNCHANGED exit_code
    /\ UNCHANGED <<env, argv, iam_token, folder_id, yandex_sdk, args,
                   instances, host_list, n, stdout>>

\* line 134, the iterable: get_hosts() lists the instances and converts all
\* of them before the loop body runs once
main_get_hosts ==
    /\ pc = "get_hosts"
    /\ rpc_calls' = Append(rpc_calls, "InstanceService.List")
    /\ \/ /\ exit(1)
          /\ UNCHANGED <<instances, host_list>>
       \/ \E il \in InstanceLists :
             LET r == get_hosts(il)
             IN  IF r.raised
                 THEN /\ exit(1)
                      /\ UNCHANGED <<instances, host_list>>
                 ELSE /\ instances' = il
                      /\ host_list' = r.hosts
                      /\ pc' = "loop"
                      /\ UNCHANGED exit_code
    /\ UNCHANGED <<env, argv, iam_token, folder_id, yandex_sdk, args,
                   zone_ids, groups, hosts, n, stdout>>

\* lines 134-135: one iteration of the loop
main_add_host ==
    /\ pc = "loop"
    /\ n < Len(host_list)
    /\ LET r == add_host_to_inventory(groups, hosts, host_list[n + 1])
       IN  /\ groups' = r.groups
           /\ hosts' = r.hosts
           /\ IF r.raised
              THEN exit(1) /\ UNCHANGED n
              ELSE n' = n + 1 /\ UNCHANGED <<pc, exit_code>>
    /\ UNCHANGED <<env, argv, iam_token, folder_id, yandex_sdk, rpc_calls,
                   args, zone_ids, instances, host_list, stdout>>

\* the print statements inside the loop body instead of after the loop
main_print_in_loop ==
    /\ pc = "loop"
    /\ n >= 1
    /\ Len(stdout) < n
    /\ stdout' = IF args.list
                 THEN print(stdout, "inventory", Inventory_str(groups))
                 ELSE print(stdout, "host", get_host_info(hosts, args.host))
    /\ IF n = Len(host_list) THEN exit(0) ELSE UNCHANGED <<pc, exit_code>>
    /\ UNCHANGED <<env, argv, iam_token, folder_id, yandex_sdk, rpc_calls,
                   args, zone_ids, groups, hosts, instances, host_list, n>>

\* lines 136-139, reached when the loop is exhausted
main_print ==
    /\ pc = "loop"
    /\ n = Len(host_list)
    /\ stdout' = IF args.list
                 THEN print(stdout, "inventory", Inventory_str(groups))
                 ELSE print(stdout, "host", get_host_info(hosts, args.host))
    /\ exit(0)
    /\ UNCHANGED <<env, argv, iam_token, folder_id, yandex_sdk, rpc_calls,
                   args, zone_ids, groups, hosts, instances, host_list, n>>

Next ==
    \/ YandexCloudProvider_init
    \/ main_parse_args
    \/ main_inventory
    \/ main_get_hosts
    \/ main_add_host
    \/ main_print

Spec == Init /\ [][Next]_vars

\* credentials and start-up only, over every setting of the four variables
NextCred ==
    \/ YandexCloudProvider_init
    \/ main_parse_args
    \/ main_inventory

SpecCred == InitCred /\ [][NextCred]_vars

-----------------------------------------------------------------------------
(* Vocabulary of the properties *)

Reserved == {str_all, str_meta}

InventoryBuilt == str_all \in DOMAIN groups

\* an add_host_to_inventory call raised: the process ended inside the loop
AddRaised == pc = "exit" /\ exit_code # 0 /\ n < Len(host_list)

\* the hosts whose add_host_to_inventory call has returned
AddedIdx == 1..n

children == groups[str_all].children

hostvars == groups[str_meta].hostvars

label(host) == dict_get(host.labels, "ansible_group")

Count(seq, x) == Cardinality({i \in DOMAIN seq : seq[i] = x})

Range(seq) == {seq[i] : i \in DOMAIN seq}

DistinctNames ==
    \A i, j \in DOMAIN host_list :
        i # j => host_list[i].name # host_list[j].name

ZoneGroups == {replace(zone_ids[i], "-", "_") : i \in DOMAIN zone_ids} \ Reserved

IsPrefix(s, t) == Len(s) <= Len(t) /\ \A i \in DOMAIN s : s[i] = t[i]

\* index of the last added host called name
LastAdded(name) ==
    CHOOSE i \in AddedIdx :
        /\ host_list[i].name = name
        /\ \A j \in AddedIdx : host_list[j].name = name => j <= i

AddedNames == {host_list[i].name : i \in AddedIdx}

-----------------------------------------------------------------------------
\* C1: with distinct host names, every added host H whose ansible_group
\* label is a non-empty G (its own zone, another zone and the reserved names
\* included) is listed exactly once in group G, and G is listed exactly once
\* in all.children.
C1_LabelGroupExactlyOnce ==
    (InventoryBuilt /\ DistinctNames) =>
        \A i \in AddedIdx :
            LET H == host_list[i]
                G == label(H)
            IN  (G # None /\ G # <<>>) =>
                    /\ has_hosts_list(groups, G)
                    /\ Count(groups[G].hosts, H.name) = 1
                    /\ Count(children, G) = 1

\* C3: with distinct host names, every added host is in the hosts list of
\* exactly one zone group, the one of its zone attribute, and outside the
\* zone groups in at most the group its ansible_group label names.
C3_OneZoneGroup ==
    (InventoryBuilt /\ DistinctNames /\ ~AddRaised) =>
        \A i \in AddedIdx :
            LET H == host_list[i]
                In(g) == has_hosts_list(groups, g) /\ H.name \in Range(groups[g].hosts)
            IN  /\ {g \in ZoneGroups : In(g)} = {H.zone}
                /\ {g \in DOMAIN groups \ ZoneGroups : In(g)} \subseteq {label(H)}

\* C5: a label-derived group exists exactly for the non-empty ansible_group
\* labels of the added hosts; an empty label creates no group and adds
\* nothing to all.children.
C5_GroupIffNonEmptyLabel ==
    (InventoryBuilt /\ ~AddRaised) =>
        /\ DOMAIN groups =
              Reserved \cup ZoneGroups \cup
              {label(host_list[i]) : i \in {j \in AddedIdx :
                  label(host_list[j]) # None /\ label(host_list[j]) # <<>>}}
        /\ Range(children) = DOMAIN groups \ Reserved

\* C10: whenever get_hosts has returned, every instance has a first network
\* interface with a one-to-one NAT address, and each Host carries it.
C10_HostsHaveExternalAddress ==
    pc = "loop" =>
        \A i \in DOMAIN instances :
            /\ Len(instances[i].network_interfaces) >= 1
            /\ instances[i].network_interfaces[1].one_to_one_nat # None
            /\ host_list[i].ip_address = instances[i].network_interfaces[1].one_to_one_nat

-----------------------------------------------------------------------------
(* What the group structure should be, computed from the inputs alone *)

\* every name _create_group has been asked for, in call order: the
\* normalised zone ids, then the labels of the added hosts
Requests ==
    [i \in DOMAIN zone_ids |-> replace(zone_ids[i], "-", "_")] \o
    SelectSeq([i \in AddedIdx |-> label(host_list[i])], LAMBDA g : g # None)

RECURSIVE FirstSeen(_, _)
\* seq without the reserved names and without repeats, first occurrences kept
FirstSeen(seq, seen) ==
    IF seq = <<>> THEN <<>>
    ELSE IF Head(seq) \in seen \cup Reserved
         THEN FirstSeen(Tail(seq), seen)
         ELSE <<Head(seq)>> \o FirstSeen(Tail(seq), seen \cup {Head(seq)})

RECURSIVE Appended(_, _)
\* the names appended to group g by the first k added hosts, in order
Appended(g, k) ==
    IF k = 0 THEN <<>>
    ELSE LET H == host_list[k]
         IN  Appended(g, k - 1)
             \o (IF H.zone = g THEN <<H.name>> ELSE <<>>)
             \o (IF label(H) = g THEN <<H.name>> ELSE <<>>)

\* C2: every group other than all and _meta is in all.children exactly
\* once, in the order of first creation, whatever the zone list (repeated or
\* colliding ids included); asking for a group that exists adds no entry and
\* keeps the hosts already in its list.
C2_ChildrenOnceInFirstSeenOrder ==
    InventoryBuilt =>
        /\ children = FirstSeen(Requests, {})
        /\ \A g \in DOMAIN groups \ Reserved : Count(children, g) = 1
        /\ \A i \in DOMAIN children : children[i] \in DOMAIN groups \ Reserved
        /\ \A g \in DOMAIN groups \ Reserved :
              /\ IsPrefix(Appended(g, n), groups[g].hosts)
              /\ ~AddRaised => groups[g].hosts = Appended(g, n)

\* a zone list with colliding ids, and two added hosts asking for the same
\* label group, which holds both
C2_Witness ==
    /\ InventoryBuilt
    /\ Len(zone_ids) > Cardinality(ZoneGroups)
    /\ n = 2
    /\ label(host_list[1]) = label(host_list[2])
    /\ label(host_list[1]) \notin Reserved \cup ZoneGroups \cup {None}
    /\ Len(groups[label(host_list[1])].hosts) = 2

-----------------------------------------------------------------------------
-----------------------------------------------------------------------------
\* C6: the serialized _meta.hostvars has an entry exactly for the names of
\* the added hosts, and its ansible_host is the ip_address of the host of
\* that name (of the last one added, should a name repeat).
C6_HostvarsAnsibleHost ==
    InventoryBuilt =>
        LET hv == Inventory_str(groups).members[str_meta].members["hostvars"].members
        IN  /\ DOMAIN hv = AddedNames
            /\ \A name \in AddedNames :
                  /\ DOMAIN hv[name].members = {"ansible_host"}
                  /\ hv[name].members["ansible_host"] =
                        json_str(host_list[LastAdded(name)].ip_address)

\* two hosts with different addresses have been added
C6_Witness ==
    /\ InventoryBuilt
    /\ n = 2
    /\ host_list[1].name # host_list[2].name
    /\ host_list[1].ip_address # host_list[2].ip_address
    /\ DOMAIN hostvars = {host_list[1].name, host_list[2].name}

-----------------------------------------------------------------------------
ProbeNames == { <<"h", "_", "1">>, <<"g">>, <<"h", "-", "1">>, <<"n", "o">> }

\* C7: get_host_info(name) is JSON null for a name never added, and for an
\* added name exactly {"ansible_host": ip}, the value serialized at
\* _meta.hostvars[name]; when main prints it, that is what is printed, and
\* the inventory is as the loop left it.
C7_GetHostInfo ==
    InventoryBuilt =>
        /\ \A name \in ProbeNames :
              IF name \in AddedNames
              THEN /\ get_host_info(hosts, name) =
                        [json |-> "object",
                         members |-> [ansible_host |->
                             json_str(host_list[LastAdded(name)].ip_address)]]
                   /\ get_host_info(hosts, name) =
                        Inventory_str(groups).members[str_meta].members["hostvars"].members[name]
              ELSE get_host_info(hosts, name) = json_null
        /\ \A i \in DOMAIN stdout :
              stdout[i].kind = "host" =>
                  /\ stdout[i].body = get_host_info(hosts, args.host)
                  /\ DOMAIN hosts = AddedNames
                  /\ n = Len(host_list)

\* --host h_1 has printed the record of h_1 while g was never added
C7_Witness ==
    /\ pc = "exit"
    /\ Len(stdout) = 1
    /\ stdout[1].kind = "host"
    /\ stdout[1].body # json_null
    /\ args.host \in AddedNames
    /\ <<"g">> \notin AddedNames
    /\ n >= 1

-----------------------------------------------------------------------------
Printed(kinds) == \E i \in DOMAIN stdout : stdout[i].kind \in kinds

\* C8: output is all or nothing.  The inventory or the host record is on
\* stdout only once every host has been added, it is then the whole
\* inventory (or the record asked for) and the exit status is 0; a run that
\* ends in error has printed neither, and a run that ends well after
\* parsing its arguments has printed exactly one of them.
C8_AllOrNothing ==
    /\ Printed({"inventory", "host"}) =>
          /\ pc = "exit"
          /\ exit_code = 0
          /\ n = Len(host_list)
          /\ rpc_calls = <<"ZoneService.List", "InstanceService.List">>
          /\ Len(stdout) = 1
          /\ AddedNames = Range([i \in DOMAIN host_list |-> host_list[i].name])
          /\ stdout[1].kind = "inventory" =>
                /\ args.list
                /\ stdout[1].body = Inventory_str(groups)
                /\ DOMAIN stdout[1].body.members[str_meta].members["hostvars"].members
                      = AddedNames
          /\ stdout[1].kind = "host" => ~args.list
    /\ (pc = "exit" /\ exit_code # 0) => ~Printed({"inventory", "host"})
    /\ (pc = "exit" /\ exit_code = 0 /\ args # NoArgs) => Printed({"inventory", "host"})
    /\ (pc # "exit") => ~Printed({"inventory", "host"})

\* the second add_host_to_inventory call raised after the first host went
\* in: the process has ended in error with nothing on stdout
C8_Witness ==
    /\ pc = "exit"
    /\ exit_code = 1
    /\ n = 1
    /\ Len(host_list) = 2
    /\ hosts # EmptyDict
    /\ stdout = <<>>

-----------------------------------------------------------------------------
TokenUnset == env["TF_VAR_yc_iam_token"] = None /\ env["YC_TOKEN"] = None

FolderUnset == env["TF_VAR_yc_folder_id"] = None /\ env["YC_FOLDER_ID"] = None

\* C9: with neither token variable set, or neither folder variable set, the
\* process has printed a remediation message and exited non-zero without
\* constructing the SDK client or sending any List call; the client exists
\* and calls are sent only with both a token and a folder id.
C9_NoCallWithoutCredentials ==
    /\ ((TokenUnset \/ FolderUnset) /\ pc # "provider") =>
          /\ pc = "exit"
          /\ exit_code = 1
          /\ Len(stdout) = 1
          /\ stdout[1].kind = "message"
          /\ stdout[1].body \in {"token_missing", "folder_missing"}
          /\ TokenUnset => stdout[1].body = "token_missing"
          /\ ~yandex_sdk
          /\ rpc_calls = <<>>
    /\ (yandex_sdk \/ rpc_calls # <<>>) =>
          /\ ~TokenUnset
          /\ ~FolderUnset
          /\ iam_token # None
          /\ folder_id # None

\* a token is set but no folder id: exited on the folder message
C9_Witness ==
    /\ ~TokenUnset
    /\ FolderUnset
    /\ pc = "exit"
    /\ exit_code = 1
    /\ stdout # <<>>
    /\ rpc_calls = <<>>

====
